---- MODULE Spec2Model ----
(***************************************************************************)
(* A model of charge_assign's canonicalization layer (charge/nauty.py) and *)
(* of its charge repository (charge/repository.py).                        *)
(*                                                                         *)
(* Representation choices, stated once:                                    *)
(*  - a molecular graph is a record                                        *)
(*      [nodes |-> sequence of node identities in graph.nodes() order,     *)
(*       atom_type |-> function node -> atom type,                         *)
(*       edges |-> set of two-element sets of nodes,                       *)
(*       partial_charge |-> function node -> charge or NoCharge];          *)
(*  - charges are integers (the code only orders and compares them);       *)
(*  - Python's 0-based list positions are kept: position i of a Python     *)
(*    list is element i+1 of the TLA+ sequence;                            *)
(*  - the md5 digest of the msgpack-encoded signature is modelled by the   *)
(*    signature itself (equal inputs give equal keys, distinct inputs      *)
(*    distinct keys: the code's own "no collisions" assumption).           *)
(***************************************************************************)
EXTENDS Integers, Sequences, FiniteSets, TLC

VARIABLES
    phase,          \* the repository object: "none", "empty" (Repository()),
                    \* "built" (create_from) or "restored" (read)
    min_shell,      \* Repository.__min_shell
    max_shell,      \* Repository.__max_shell
    charges_iacm,   \* Repository.charges_iacm : shell -> key -> list of charges
    charges_elem,   \* Repository.charges_elem
    default_iacm,   \* which maps of charges_iacm are defaultdicts:
                    \* [outer |-> BOOLEAN, inner |-> set of shells]
    default_elem,   \* the same for charges_elem
    has_iso,        \* whether the attributes __iso_iacm / __iso_elem exist
    iso_iacm,       \* Repository.__iso_iacm : molid -> list of molids
    iso_elem,       \* Repository.__iso_elem
    archive,        \* the zip file written by write(): entry name -> content
    error,          \* outcome of the last call: "ok" or the exception raised
    molids,         \* history: the directory listing create_from worked from
    present,        \* history: molid -> how many times it contributes now
    clean,          \* history: every call so far returned normally and every
                    \* subtract named a molecule that was contributing
    ops,            \* number of add/subtract calls made
    \* --- one Nauty object and its dreadnaut process (charge/nauty.py)
    exe_ok,         \* the executable path is a file and is executable
    nauty,          \* "none", "ready" (constructed) or "failed" (__init__ raised)
    process,        \* Nauty.__process: [state |-> "none" | "running" | "exited",
                    \*                   returncode |-> exit status]
    spawns,         \* history: number of subprocess.Popen calls
    pc,             \* "idle", or "reading" inside __communicate's read loop
    request,        \* history: number of requests written so far
    pending,        \* output the solver has still to write
    pipe,           \* bytes in the stdout pipe, not yet read
    out,            \* __communicate's local `out`
    result,         \* the text the last __communicate returned
    nauty_error,    \* outcome of the last Nauty call: "ok" or the exception
    eof_reads,      \* history: reads that returned b'' in the current exchange (counted round)
    \* --- one relabelling experiment on canonize
    cgraph,         \* the graph drawn
    ccore,          \* its core node, or NoCore
    cperm,          \* the renaming of its nodes
    cshell,         \* the shell size of the neighborhoods compared
    ckeys,          \* the keys computed so far: <<>>, <<key>>, <<key, key'>>
    \* --- one filtered view of a traceable repository (charge/validation.py)
    t_charges,      \* the repository's stores: typing -> shell -> key ->
                    \*   list of observations <<charge, molid, atom>>
    t_iso,          \* the repository's isomorphism indices, per typing
    t_built,        \* history: the stores and indices as they were built
    view,           \* the _FilteredRepository, once made
    vresult,        \* the last operation on the view and what it returned
    vops            \* number of operations made on the view

repo_vars == <<phase, min_shell, max_shell, charges_iacm, charges_elem,
               default_iacm, default_elem, has_iso, iso_iacm, iso_elem,
               archive, error, molids, present, clean, ops>>

nauty_vars == <<exe_ok, nauty, process, spawns, pc, request, pending, pipe,
                out, result, nauty_error, eof_reads>>

canon_vars == <<cgraph, ccore, cperm, cshell, ckeys>>

view_vars == <<t_charges, t_iso, t_built, view, vresult, vops>>

vars == <<repo_vars, nauty_vars, canon_vars, view_vars>>

----------------------------------------------------------------------------
(* Generic helpers on sequences.                                           *)

Range(f) == {f[x] : x \in DOMAIN f}

\* Python's tuple ordering on pairs of integers.
PairLess(p, q) == p[1] < q[1] \/ (p[1] = q[1] /\ p[2] < q[2])

\* bisect.bisect_left on a list of integers: first position (0-based) whose
\* element is not smaller than x.
RECURSIVE bisect_left_from(_, _, _)
bisect_left_from(list, x, i) ==
    IF i > Len(list) \/ ~(list[i] < x) THEN i - 1
    ELSE bisect_left_from(list, x, i + 1)

bisect_left(list, x) == bisect_left_from(list, x, 1)

\* list.insert(i, x) with a 0-based position.
ListInsert(list, i, x) ==
    SubSeq(list, 1, i) \o <<x>> \o SubSeq(list, i + 1, Len(list))

\* list.pop(i) with a 0-based position that is in range.
ListPop(list, i) ==
    SubSeq(list, 1, i) \o SubSeq(list, i + 2, Len(list))

insort_left(list, x) == ListInsert(list, bisect_left(list, x), x)

\* sorted() of a list of integers.
RECURSIVE sorted(_)
sorted(list) ==
    IF list = <<>> THEN <<>>
    ELSE insort_left(sorted(Tail(list)), Head(list))

\* sorted() of a list of integer pairs (list.sort() on tuples).
RECURSIVE sorted_pairs(_)
sorted_pairs(list) ==
    IF list = <<>> THEN <<>>
    ELSE LET rest == sorted_pairs(Tail(list))
             x == Head(list)
             k == Cardinality({i \in 1..Len(rest) : PairLess(rest[i], x)})
         IN  SubSeq(rest, 1, k) \o <<x>> \o SubSeq(rest, k + 1, Len(rest))

\* Some enumeration of a finite set as a sequence (iteration order of a set
\* or of graph.edges(); every use below sorts the result).
RECURSIVE SetToSeq(_)
SetToSeq(S) ==
    IF S = {} THEN <<>>
    ELSE LET x == CHOOSE y \in S : TRUE IN <<x>> \o SetToSeq(S \ {x})

IsSorted(list) == \A i \in 1..(Len(list) - 1) : list[i] <= list[i + 1]

----------------------------------------------------------------------------
(* Colors and their ordering.                                              *)

\* Atom types of the corpus: IACM types, and the elements they map to.
AtomTypes == {"C", "H", "HC"}

\* Python's string order on the atom types used: "C" < "H" < "HC".
TypeRank(t) == CASE t = "C" -> 1 [] t = "H" -> 2 [] t = "HC" -> 3

\* A Color is <<is_core, atom_type>>; tuples compare lexicographically and
\* False < True.
ColorRank(c) == (IF c[1] THEN 10 ELSE 0) + TypeRank(c[2])

\* core=None: a value that is no node (node identities are positive).
NoCore == 0

----------------------------------------------------------------------------
(* charge/nauty.py: building the request.                                  *)

\* node_to_index = { v: i for i, v in enumerate(graph.nodes()) }
node_to_index(graph) ==
    [v \in Range(graph.nodes) |->
        (CHOOSE i \in 1..Len(graph.nodes) : graph.nodes[i] = v) - 1]

\* The colors with no atom marked as the core, for comparison.
node_colors_unmarked(graph, core) ==
    [i \in 1..Len(graph.nodes) |-> <<FALSE, graph.atom_type[graph.nodes[i]]>>]

\* canonize, lines 115-117: the color of each node, in graph.nodes() order.
node_colors_of(graph, core) ==
    [i \in 1..Len(graph.nodes) |->
        <<graph.nodes[i] = core, graph.atom_type[graph.nodes[i]]>>]

\* graph.edges(): each edge once, reported from the endpoint that comes
\* first in node order.
graph_edges(graph) ==
    LET idx == node_to_index(graph)
        ordered == {<<u, v>> \in Range(graph.nodes) \X Range(graph.nodes) :
                        {u, v} \in graph.edges /\ idx[u] < idx[v]}
    IN  SetToSeq(ordered)

make_nauty_edges(edges, n2i) ==
    sorted_pairs([k \in 1..Len(edges) |-> <<n2i[edges[k][1]], n2i[edges[k][2]]>>])

\* The distinct colors of a color list, ascending.
RECURSIVE colors_ascending(_)
colors_ascending(colors) ==
    IF colors = {} THEN <<>>
    ELSE LET c == CHOOSE x \in colors :
                    \A y \in colors : ColorRank(x) <= ColorRank(y)
         IN  <<c>> \o colors_ascending(colors \ {c})

\* Every index in one group, for comparison.
partition_single_cell(nodes, node_colors, n2i) ==
    <<<<node_colors[1], [k \in 1..Len(nodes) |-> k - 1]>>>>

\* Sort the (index, color) pairs by color, group by color, sort the indexes
\* of each group: a list of <<color, indexes>>.
make_partition(nodes, node_colors, n2i) ==
    LET colored_nauty_nodes ==
            [k \in 1..Len(node_colors) |-> <<n2i[nodes[k]], node_colors[k]>>]
        cols == colors_ascending({colored_nauty_nodes[k][2] :
                                    k \in 1..Len(colored_nauty_nodes)})
    IN  [g \in 1..Len(cols) |->
            <<cols[g],
              sorted(SetToSeq({colored_nauty_nodes[k][1] :
                        k \in {j \in 1..Len(colored_nauty_nodes) :
                                 colored_nauty_nodes[j][2] = cols[g]}}))>>]

\* The request, as the fields dreadnaut reads from it: n, the edge list and
\* the cells of the partition (format_edges and format_partition drop the
\* colors and keep the order).
make_nauty_input(graph, node_colors) ==
    LET n2i == node_to_index(graph)
        partition == make_partition(graph.nodes, node_colors, n2i)
    IN  [num_atoms |-> Len(graph.nodes),
         edges |-> make_nauty_edges(graph_edges(graph), n2i),
         partition |-> [g \in 1..Len(partition) |-> partition[g][2]]]

----------------------------------------------------------------------------
(* dreadnaut, the external solver: for "c x b" it prints a canonical       *)
(* labelling that keeps the cells of the partition in their order, and the *)
(* graph relabelled by it.                                                 *)

RECURSIVE Pow2(_)
Pow2(k) == IF k = 0 THEN 1 ELSE 2 * Pow2(k - 1)

RECURSIVE SumOver(_, _)
SumOver(S, f) ==
    IF S = {} THEN 0
    ELSE LET x == CHOOSE y \in S : TRUE IN f[x] + SumOver(S \ {x}, f)

\* First position (0-based) of each cell in a labelling.
RECURSIVE CellStart(_, _)
CellStart(partition, g) ==
    IF g = 1 THEN 0 ELSE CellStart(partition, g - 1) + Len(partition[g - 1])

\* The labellings that respect the partition: pos[v] is the canonical label
\* of input node v.
Labellings(n, partition) ==
    LET cellOf(v) == CHOOSE g \in 1..Len(partition) :
                        v \in Range(partition[g])
        slots(v) == LET g == cellOf(v)
                    IN  CellStart(partition, g)
                            .. (CellStart(partition, g) + Len(partition[g]) - 1)
    IN  {pos \in [0..(n - 1) -> 0..(n - 1)] :
            /\ \A v \in 0..(n - 1) : pos[v] \in slots(v)
            /\ \A v, w \in 0..(n - 1) : v # w => pos[v] # pos[w]}

\* The relabelled graph as a set of directed pairs (both directions).
Relabelled(edges, pos) ==
    UNION {{<<pos[edges[k][1]], pos[edges[k][2]]>>,
            <<pos[edges[k][2]], pos[edges[k][1]]>>} : k \in 1..Len(edges)}

\* A total order on relabelled graphs: the adjacency matrix read as a number.
GraphCode(n, pairs) ==
    SumOver(pairs, [p \in pairs |-> Pow2(p[1] * n + p[2])])

dreadnaut(input) ==
    LET n == input.num_atoms
        labs == Labellings(n, input.partition)
        best == CHOOSE pos \in labs :
                    \A other \in labs :
                        GraphCode(n, Relabelled(input.edges, pos))
                            <= GraphCode(n, Relabelled(input.edges, other))
        canong == Relabelled(input.edges, best)
    IN  [canonical_node_ids |->
            [i \in 1..n |-> CHOOSE v \in 0..(n - 1) : best[v] = i - 1],
         adjacency_lists |->
            [i \in 1..n |->
                <<i - 1, sorted(SetToSeq({p[2] : p \in {q \in canong : q[1] = i - 1}}))>>]]

----------------------------------------------------------------------------
(* charge/nauty.py: reading the answer.                                    *)

\* The colors left in the order of the input, for comparison.
node_colors_as_given(canonical_node_ids, node_colors) == node_colors

\* __canonical_node_colors: the color of each node, in canonical order.
canonical_node_colors(canonical_node_ids, node_colors) ==
    [i \in 1..Len(canonical_node_ids) |-> node_colors[canonical_node_ids[i] + 1]]

RECURSIVE flatten_adjacency(_)
flatten_adjacency(adjacency_lists) ==
    IF adjacency_lists = <<>> THEN <<>>
    ELSE LET node_id == Head(adjacency_lists)[1]
             neighbors == Head(adjacency_lists)[2]
         IN  [k \in 1..Len(neighbors) |-> <<node_id, neighbors[k]>>]
                \o flatten_adjacency(Tail(adjacency_lists))

canonical_edges(adjacency_lists) == sorted_pairs(flatten_adjacency(adjacency_lists))

make_hash(canonical_nodes, edges) == <<canonical_nodes, edges>>

\* canonize, from the colors to the key (the exchange itself is dreadnaut).
canonize(graph, core) ==
    LET node_colors == node_colors_of(graph, core)
        nauty_output == dreadnaut(make_nauty_input(graph, node_colors))
    IN  make_hash(
            canonical_node_colors(nauty_output.canonical_node_ids, node_colors),
            canonical_edges(nauty_output.adjacency_lists))

----------------------------------------------------------------------------
(* The corpus: the molecule files of the data directory.                   *)

MaxShellBound == 2      \* largest max_shell a repository is created with
MaxOps == 2             \* add/subtract calls per behaviour

NoCharge == -1000       \* an atom without the 'partial_charge' attribute

\* Molecule 1 and molecule 2 are the same molecule with the nodes listed in
\* a different order; molecule 3 differs from them in an IACM type only and
\* shares a charge value with them; molecule 4 has an atom without a charge.
Molecule ==
    [m \in 1..4 |->
        CASE m = 1 -> [nodes |-> <<1, 2>>,
                       atom_type |-> <<"C", "HC">>,
                       edges |-> {{1, 2}},
                       partial_charge |-> <<2, 1>>]
          [] m = 2 -> [nodes |-> <<1, 2>>,
                       atom_type |-> <<"HC", "C">>,
                       edges |-> {{1, 2}},
                       partial_charge |-> <<1, 2>>]
          [] m = 3 -> [nodes |-> <<1, 2>>,
                       atom_type |-> <<"C", "H">>,
                       edges |-> {{1, 2}},
                       partial_charge |-> <<3, 1>>]
          [] m = 4 -> [nodes |-> <<1, 2>>,
                       atom_type |-> <<"H", "C">>,
                       edges |-> {{1, 2}},
                       partial_charge |-> <<1, NoCharge>>]]

Molids == DOMAIN Molecule

\* The molecule files in which every atom has a partial charge.
ChargedMolids ==
    {m \in Molids :
        \A v \in Range(Molecule[m].nodes) : Molecule[m].partial_charge[v] # NoCharge}

\* charge.settings.IACM_MAP on the atom types of the corpus.
IACM_MAP(t) == CASE t = "HC" -> "H" [] t = "H" -> "H" [] t = "C" -> "C"

Typings == {"iacm", "elem"}

\* convert_from(f.read(), data_type), and for "elem" the loop that replaces
\* every atom type by its element.
graph_of(molid, typing) ==
    LET g == Molecule[molid]
    IN  IF typing = "iacm" THEN g
        ELSE [g EXCEPT !.atom_type =
                [v \in DOMAIN g.atom_type |-> IACM_MAP(g.atom_type[v])]]

----------------------------------------------------------------------------
(* Neighborhoods.                                                          *)

\* charge.util.bfs_nodes: the nodes at most max_depth bonds away from core.
RECURSIVE bfs_nodes(_, _, _)
bfs_nodes(graph, core, max_depth) ==
    IF max_depth = 0 THEN {core}
    ELSE LET inner == bfs_nodes(graph, core, max_depth - 1)
         IN  inner \cup {v \in Range(graph.nodes) :
                            \E u \in inner : {u, v} \in graph.edges}

\* graph.subgraph(nodes): the induced subgraph, nodes in the graph's order.
subgraph(graph, keep) ==
    [graph EXCEPT !.nodes = SelectSeq(graph.nodes, LAMBDA v : v \in keep),
                  !.edges = {e \in graph.edges : e \subseteq keep}]

\* canonize_neighborhood, lines 84-89: the fragment handed to canonize.
neighborhood(graph, core, shell) ==
    IF shell > 0
    THEN subgraph(graph, bfs_nodes(graph, core, shell))
    ELSE subgraph(graph, {core})

canonize_neighborhood(graph, core, shell) ==
    canonize(neighborhood(graph, core, shell), core)

\* _iter_atomic_fragments: the pairs <<key, partial_charge>> it yields, atom
\* by atom, and whether it then raised KeyError for an atom without charge,
\* and the atom the message of that KeyError names (0 when none is raised).
RECURSIVE iter_from(_, _, _)
iter_from(graph, shell, i) ==
    IF i > Len(graph.nodes) THEN [items |-> <<>>, raised |-> FALSE, atom |-> 0]
    ELSE LET atom == graph.nodes[i]
         IN  IF graph.partial_charge[atom] = NoCharge
             THEN [items |-> <<>>, raised |-> TRUE, atom |-> atom]
             ELSE LET rest == iter_from(graph, shell, i + 1)
                  IN  [items |-> <<<<canonize_neighborhood(graph, atom, shell),
                                     graph.partial_charge[atom]>>>> \o rest.items,
                       raised |-> rest.raised,
                       atom |-> rest.atom]

iter_atomic_fragments(graph, shell) == iter_from(graph, shell, 1)

\* The fragments of every molecule file, typing and shell, computed once.
Fragments ==
    [m \in Molids |-> [t \in Typings |-> [shell \in 0..(MaxShellBound + 1) |->
        iter_atomic_fragments(graph_of(m, t), shell)]]]

----------------------------------------------------------------------------
(* Stores: a map shell -> key -> list, with the kind of each dict.         *)

EmptyMap == [x \in {} |-> <<>>]

MapPut(f, k, v) == [x \in DOMAIN f \cup {k} |-> IF x = k THEN v ELSE f[x]]

MapDel(f, k) == [x \in DOMAIN f \ {k} |-> f[x]]

\* A store value: the nested map and which of its dicts are defaultdicts.
Store(map, dflt) == [map |-> map, outer |-> dflt.outer, inner |-> dflt.inner]

\* A step's result: the store as the step leaves it, and "ok" or the
\* exception raised.
Ok(repo) == [repo |-> repo, error |-> "ok"]

Raise(repo, exception) == [repo |-> repo, error |-> exception]

\* Repository.add.a, lines 144-145.
a_shell(shell, repo) ==
    IF shell \notin DOMAIN repo.map
    THEN [repo EXCEPT !.map = MapPut(repo.map, shell, EmptyMap),
                      !.inner = repo.inner \ {shell}]
    ELSE repo

\* Repository.add.a, lines 146-147.
a_key(shell, key, repo) ==
    IF key \notin DOMAIN repo.map[shell]
    THEN [repo EXCEPT !.map[shell] = MapPut(repo.map[shell], key, <<>>)]
    ELSE repo

\* Repository.add.a, line 148.
a_insort(shell, key, partial_charge, repo) ==
    Ok([repo EXCEPT !.map[shell][key] =
            insort_left(repo.map[shell][key], partial_charge)])

\* Repository.add.a.
a(shell, key, partial_charge, repo) ==
    a_insort(shell, key, partial_charge, a_key(shell, key, a_shell(shell, repo)))

\* Repository.subtract.s, repo[shell]: a defaultdict creates the missing
\* entry (an empty defaultdict(list)), a dict raises KeyError.
s_shell(shell, repo) ==
    IF shell \in DOMAIN repo.map THEN Ok(repo)
    ELSE IF repo.outer
         THEN Ok([repo EXCEPT !.map = MapPut(repo.map, shell, EmptyMap),
                              !.inner = repo.inner \cup {shell}])
         ELSE Raise(repo, "KeyError")

\* Repository.subtract.s, repo[shell][key]: likewise for the bucket.
s_key(shell, key, r) ==
    IF r.error # "ok" \/ key \in DOMAIN r.repo.map[shell] THEN r
    ELSE IF shell \in r.repo.inner
         THEN Ok([r.repo EXCEPT !.map[shell] = MapPut(r.repo.map[shell], key, <<>>)])
         ELSE Raise(r.repo, "KeyError")

\* Repository.subtract.s, lines 171-172: pop at the bisect_left position,
\* IndexError when that is the end of the list.
s_pop(shell, key, partial_charge, r) ==
    IF r.error # "ok" THEN r
    ELSE IF bisect_left(r.repo.map[shell][key], partial_charge)
                >= Len(r.repo.map[shell][key])
         THEN Raise(r.repo, "IndexError")
         ELSE Ok([r.repo EXCEPT !.map[shell][key] =
                    ListPop(@, bisect_left(@, partial_charge))])

\* Repository.subtract.s, lines 173-174.
s_del_key(shell, key, r) ==
    IF r.error = "ok" /\ Len(r.repo.map[shell][key]) = 0
    THEN Ok([r.repo EXCEPT !.map[shell] = MapDel(r.repo.map[shell], key)])
    ELSE r

\* The emptied shell entry kept, for comparison.
s_keep_shell(shell, r) == r

\* Repository.subtract.s, lines 175-176.
s_del_shell(shell, r) ==
    IF r.error = "ok" /\ DOMAIN r.repo.map[shell] = {}
    THEN Ok([r.repo EXCEPT !.map = MapDel(r.repo.map, shell),
                           !.inner = r.repo.inner \ {shell}])
    ELSE r

\* Repository.subtract.s.
s(shell, key, partial_charge, repo) ==
    s_del_shell(shell,
        s_del_key(shell, key,
            s_pop(shell, key, partial_charge,
                s_key(shell, key, s_shell(shell, repo)))))

\* The callable of add ("a") or of subtract ("s").
Callable(op, shell, key, partial_charge, repo) ==
    IF op = "a" THEN a(shell, key, partial_charge, repo)
    ELSE s(shell, key, partial_charge, repo)

\* One shell of one pass of __iterate: the callable applied to each pair the
\* generator yields, stopping at the first exception (the callable's, or
\* the generator's KeyError for an atom without charge).
RECURSIVE iterate_items(_, _, _, _, _)
iterate_items(op, shell, items, raised, r) ==
    IF r.error # "ok" THEN r
    ELSE IF items = <<>>
         THEN (IF raised THEN Raise(r.repo, "KeyError") ELSE r)
         ELSE iterate_items(op, shell, Tail(items), raised,
                Callable(op, shell, Head(items)[1], Head(items)[2], r.repo))

\* The first shell __iterate visits (lines 264 and 275).
IterateFirstShell == 1

\* One pass of __iterate (lines 260-267, or 269-278): shells 1..max_shell.
RECURSIVE iterate_shells(_, _, _, _, _, _)
iterate_shells(op, molid, typing, shell, last, r) ==
    IF r.error # "ok" \/ shell > last THEN r
    ELSE iterate_shells(op, molid, typing, shell + 1, last,
            iterate_items(op, shell, Fragments[molid][typing][shell].items,
                          Fragments[molid][typing][shell].raised, r))

\* The set enlarged in place, for comparison.
ids_enlarged(ids, more) == ids \cup more

\* ids.union(more) as a statement (lines 254 and 256): union returns a new
\* set, which is dropped; ids is what it was.
ids_after_union(ids, more) == ids

\* __iterate, lines 251 and 253-256: the molecule files the IACM pass reads.
ids_iacm(molid) ==
    ids_after_union(
        IF molid \in DOMAIN iso_iacm
        THEN ids_after_union({molid}, Range(iso_iacm[molid]))
        ELSE {molid},
        IF molid \in DOMAIN iso_elem THEN Range(iso_elem[molid]) ELSE {})

\* __iterate, line 252: the molecule files the element pass reads.
ids_elem(molid) == {molid}

\* `for molid in ids` around one pass: the files in turn, until one raises.
RECURSIVE iterate_ids(_, _, _, _, _)
iterate_ids(op, ids, typing, last, r) ==
    IF r.error # "ok" \/ ids = <<>> THEN r
    ELSE iterate_ids(op, Tail(ids), typing, last,
            iterate_shells(op, Head(ids), typing, IterateFirstShell, last, r))

\* The element pass runs when the IACM pass raised nothing.
iterate_elem(op, molid, r1, elem, last) ==
    IF r1.error # "ok"
    THEN [iacm |-> r1.repo, elem |-> elem, error |-> r1.error]
    ELSE [iacm |-> r1.repo,
          elem |-> iterate_ids(op, SetToSeq(ids_elem(molid)), "elem", last,
                               Ok(elem)).repo,
          error |-> iterate_ids(op, SetToSeq(ids_elem(molid)), "elem", last,
                                Ok(elem)).error]

\* __iterate: the IACM pass, then the element pass; an exception ends it.
iterate(op, molid, iacm, elem, last) ==
    iterate_elem(op, molid,
        iterate_ids(op, SetToSeq(ids_iacm(molid)), "iacm", last, Ok(iacm)),
        elem, last)

----------------------------------------------------------------------------
(* Bulk build.                                                             *)

\* All orderings of a finite set.
Orderings(S) ==
    {q \in [1..Cardinality(S) -> S] : \A i, j \in DOMAIN q : i # j => q[i] # q[j]}

RECURSIVE concat_values(_, _)
concat_values(items, key) ==
    IF items = <<>> THEN <<>>
    ELSE (IF Head(items)[1] = key THEN <<Head(items)[2]>> ELSE <<>>)
            \o concat_values(Tail(items), key)

\* _ChargeWorker.process for each graph, results merged in the order the
\* workers deliver them (line 213): key -> concatenated list.
RECURSIVE merge_shell(_, _, _)
merge_shell(done, typing, shell) ==
    IF done = <<>> THEN EmptyMap
    ELSE LET c == Fragments[Head(done)][typing][shell].items
             rest == merge_shell(Tail(done), typing, shell)
             keys == {c[i][1] : i \in 1..Len(c)} \cup DOMAIN rest
         IN  [k \in keys |-> concat_values(c, k)
                                \o (IF k \in DOMAIN rest THEN rest[k] ELSE <<>>)]

\* The buckets left as the workers' results were concatenated, for
\* comparison.
buckets_as_merged(charges) == charges

\* The second loop of __generate_charges (lines 215-217).
sort_buckets(charges) == [k \in DOMAIN charges |-> sorted(charges[k])]

\* __generate_charges: every shell of range(min_shell, max_shell + 1) gets
\* an entry (line 216 reads charges[shell] of a defaultdict).
generate_charges(done, typing, lo, hi) ==
    [shell \in lo..hi |-> sort_buckets(merge_shell(done, typing, shell))]

\* No worker's error reaches the build, for comparison.
generate_never_raises(done, typing, lo, hi) == FALSE

\* Whether some worker of __generate_charges raises.
generate_raises(done, typing, lo, hi) ==
    \E i \in 1..Len(done), shell \in lo..hi :
        Fragments[done[i]][typing][shell].raised

\* __make_canons.
make_canons(ids, typing) ==
    [m \in ids |-> canonize(graph_of(m, typing), NoCore)]

\* itertools.groupby(molids, key): the runs of adjacent equal keys.
RECURSIVE groupby(_, _)
groupby(list, canons) ==
    IF list = <<>> THEN <<>>
    ELSE LET rest == groupby(Tail(list), canons)
         IN  IF rest # <<>> /\ canons[Head(rest)[1]] = canons[Head(list)]
             THEN <<<<Head(list)>> \o Head(rest)>> \o Tail(rest)
             ELSE <<<<Head(list)>>>> \o rest

\* Every run recorded, whatever its length, for comparison.
make_isomorphics_any_length(list, canons) ==
    LET groups == groupby(list, canons)
    IN  [m \in Range(list) |->
            groups[CHOOSE g \in 1..Len(groups) : m \in Range(groups[g])]]

\* __make_isomorphics.
make_isomorphics(list, canons) ==
    LET groups == groupby(list, canons)
        big == {g \in 1..Len(groups) : Len(groups[g]) > 1}
        members == UNION {Range(groups[g]) : g \in big}
    IN  [m \in members |->
            groups[CHOOSE g \in big : m \in Range(groups[g])]]

----------------------------------------------------------------------------
(* Persistence. A Python value is [type, value]; msgpack writes a dict of  *)
(* any kind as a map and a tuple or list as an array, and reads a map back *)
(* as a dict and an array as a list. Integers, floats and strings come     *)
(* back as they were.                                                      *)

PyDict(map, is_default) ==
    [type |-> IF is_default THEN "defaultdict" ELSE "dict", value |-> map]

PyTuple(items) == [type |-> "tuple", value |-> items]

\* msgpack.packb.
packb(obj) ==
    [fmt |-> IF obj.type \in {"dict", "defaultdict"} THEN "map" ELSE "array",
     value |-> obj.value]

\* msgpack.unpackb.
unpackb(bytes) ==
    [type |-> IF bytes.fmt = "map" THEN "dict" ELSE "list", value |-> bytes.value]

ArchiveEntries == {"meta", "charges_iacm", "charges_elem", "iso_iacm", "iso_elem"}

\* No zip file yet. The last two fields are history: what contributed to
\* the repository that was written.
NoArchive == [entries |-> {},
              meta |-> packb(PyTuple(<<>>)),
              charges_iacm |-> packb(PyDict(EmptyMap, FALSE)),
              charges_elem |-> packb(PyDict(EmptyMap, FALSE)),
              iso_iacm |-> packb(PyDict(EmptyMap, FALSE)),
              iso_elem |-> packb(PyDict(EmptyMap, FALSE)),
              molids |-> <<>>,
              present |-> <<>>]

----------------------------------------------------------------------------
(* The operations of the repository.                                       *)

NoDefault == [outer |-> FALSE, inner |-> {}]

\* Inputs: the (min_shell, max_shell) arguments tried.
ShellArgs ==
    {p \in (-1..MaxShellBound) \X (0..MaxShellBound) : p[1] <= p[2]}

Max(x, y) == IF x >= y THEN x ELSE y

RepoInit ==
    /\ phase = "none"
    /\ min_shell = 1
    /\ max_shell = 7
    /\ charges_iacm = EmptyMap
    /\ charges_elem = EmptyMap
    /\ default_iacm = NoDefault
    /\ default_elem = NoDefault
    /\ has_iso = FALSE
    /\ iso_iacm = EmptyMap
    /\ iso_elem = EmptyMap
    /\ archive = NoArchive
    /\ error = "ok"
    /\ molids = <<>>
    /\ present = [m \in Molids |-> 0]
    /\ clean = TRUE
    /\ ops = 0

\* Repository(min_shell, max_shell): __init__ sets the shells and the two
\* stores, and neither isomorphism index.
New(lo, hi) ==
    /\ phase = "none"
    /\ phase' = "empty"
    /\ min_shell' = Max(lo, 0)
    /\ max_shell' = hi
    /\ charges_iacm' = EmptyMap
    /\ charges_elem' = EmptyMap
    /\ default_iacm' = [outer |-> TRUE, inner |-> {}]
    /\ default_elem' = [outer |-> TRUE, inner |-> {}]
    /\ has_iso' = FALSE
    /\ error' = "ok"
    /\ UNCHANGED <<iso_iacm, iso_elem, archive, molids, present, clean, ops>>
    /\ UNCHANGED <<nauty_vars, canon_vars, view_vars>>

\* Repository.create_from on a directory listing `listing`, the workers of
\* each stage delivering in the order `done`.
create_from(listing, done, lo, hi) ==
    /\ phase = "none"
    /\ IF generate_raises(done, "iacm", Max(lo, 0), hi)
          \/ generate_raises(done, "elem", Max(lo, 0), hi)
       THEN /\ error' = "KeyError"
            /\ clean' = FALSE
            /\ UNCHANGED <<phase, min_shell, max_shell, charges_iacm,
                           charges_elem, default_iacm, default_elem, has_iso,
                           iso_iacm, iso_elem, molids, present>>
       ELSE /\ phase' = "built"
            /\ min_shell' = Max(lo, 0)
            /\ max_shell' = hi
            /\ charges_iacm' = generate_charges(done, "iacm", Max(lo, 0), hi)
            /\ charges_elem' = generate_charges(done, "elem", Max(lo, 0), hi)
            /\ default_iacm' = [outer |-> TRUE, inner |-> Max(lo, 0)..hi]
            /\ default_elem' = [outer |-> TRUE, inner |-> Max(lo, 0)..hi]
            /\ has_iso' = TRUE
            /\ iso_iacm' = make_isomorphics(listing, make_canons(Range(listing), "iacm"))
            /\ iso_elem' = make_isomorphics(listing, make_canons(Range(listing), "elem"))
            /\ molids' = listing
            /\ present' = [m \in Molids |-> IF m \in Range(listing) THEN 1 ELSE 0]
            /\ error' = "ok"
            /\ UNCHANGED clean
    /\ UNCHANGED <<archive, ops>>
    /\ UNCHANGED <<nauty_vars, canon_vars, view_vars>>

CreateFrom ==
    \E ids \in SUBSET Molids : \E listing \in Orderings(ids), done \in Orderings(ids) :
        \E p \in ShellArgs : create_from(listing, done, p[1], p[2])

\* The stores as Python values.
StoreIacm == Store(charges_iacm, default_iacm)

StoreElem == Store(charges_elem, default_elem)

\* The body of add (op "a") and of subtract (op "s") on given stores:
\* __iterate with the callable a or s. Without the attribute __iso_iacm
\* line 253 raises AttributeError before anything is read.
mutate(op, molid, iacm, elem) ==
    IF ~has_iso
    THEN [iacm |-> iacm, elem |-> elem, error |-> "AttributeError"]
    ELSE iterate(op, molid, iacm, elem, max_shell)

\* add / subtract of one molecule file.
Mutate(op, molid) ==
    /\ phase # "none"
    /\ ops < MaxOps
    /\ ops' = ops + 1
    /\ \E r \in {mutate(op, molid, StoreIacm, StoreElem)} :
        /\ charges_iacm' = r.iacm.map
        /\ charges_elem' = r.elem.map
        /\ default_iacm' = [outer |-> r.iacm.outer, inner |-> r.iacm.inner]
        /\ default_elem' = [outer |-> r.elem.outer, inner |-> r.elem.inner]
        /\ error' = r.error
        /\ clean' = (clean /\ r.error = "ok" /\ (op = "s" => present[molid] > 0))
        /\ present' = IF r.error # "ok" THEN present
                      ELSE IF op = "a"
                           THEN [present EXCEPT ![molid] = @ + 1]
                           ELSE [present EXCEPT ![molid] = Max(@ - 1, 0)]
    /\ UNCHANGED <<phase, min_shell, max_shell, has_iso, iso_iacm, iso_elem,
                   archive, molids>>
    /\ UNCHANGED <<nauty_vars, canon_vars, view_vars>>

add(molid) == Mutate("a", molid)

subtract(molid) == Mutate("s", molid)

Add == \E molid \in Molids : add(molid)

Subtract == \E molid \in Molids : subtract(molid)

\* Repository.write: the zip file it leaves. The five entries are written
\* in order; reading the missing attribute __iso_iacm raises AttributeError
\* after three of them are in the file.
written ==
    [entries |-> IF has_iso THEN ArchiveEntries
                 ELSE {"meta", "charges_iacm", "charges_elem"},
     meta |-> packb(PyTuple(<<min_shell, max_shell>>)),
     charges_iacm |-> packb(PyDict(charges_iacm, default_iacm.outer)),
     charges_elem |-> packb(PyDict(charges_elem, default_elem.outer)),
     iso_iacm |-> IF has_iso THEN packb(PyDict(iso_iacm, phase = "built"))
                  ELSE NoArchive.iso_iacm,
     iso_elem |-> IF has_iso THEN packb(PyDict(iso_elem, phase = "built"))
                  ELSE NoArchive.iso_elem,
     molids |-> molids,
     present |-> present]

\* A behaviour writes one archive and reads it back once.
write ==
    /\ phase # "none"
    /\ archive.entries = {}
    /\ archive' = written
    /\ error' = IF has_iso THEN "ok" ELSE "AttributeError"
    /\ clean' = (clean /\ has_iso)
    /\ UNCHANGED <<phase, min_shell, max_shell, charges_iacm, charges_elem,
                   default_iacm, default_elem, has_iso, iso_iacm, iso_elem,
                   molids, present, ops>>
    /\ UNCHANGED <<nauty_vars, canon_vars, view_vars>>

\* Repository.read, lines 107-119: the attributes of the repository it
\* returns when the zip file holds the five entries.
restored(zf) ==
    [min_shell |-> unpackb(zf.meta).value[1],
     max_shell |-> unpackb(zf.meta).value[2],
     charges_iacm |-> unpackb(zf.charges_iacm).value,
     charges_elem |-> unpackb(zf.charges_elem).value,
     default_iacm |-> [outer |-> unpackb(zf.charges_iacm).type = "defaultdict",
                       inner |-> {}],
     default_elem |-> [outer |-> unpackb(zf.charges_elem).type = "defaultdict",
                       inner |-> {}],
     iso_iacm |-> unpackb(zf.iso_iacm).value,
     iso_elem |-> unpackb(zf.iso_elem).value]

\* Repository.read of the archive written before; a missing entry raises
\* KeyError and no repository is returned.
read ==
    /\ archive.entries # {}
    /\ phase # "restored"
    /\ IF ArchiveEntries \subseteq archive.entries
       THEN /\ phase' = "restored"
            /\ min_shell' = restored(archive).min_shell
            /\ max_shell' = restored(archive).max_shell
            /\ charges_iacm' = restored(archive).charges_iacm
            /\ charges_elem' = restored(archive).charges_elem
            /\ default_iacm' = restored(archive).default_iacm
            /\ default_elem' = restored(archive).default_elem
            /\ has_iso' = TRUE
            /\ iso_iacm' = restored(archive).iso_iacm
            /\ iso_elem' = restored(archive).iso_elem
            /\ molids' = archive.molids
            /\ present' = archive.present
            /\ error' = "ok"
            /\ UNCHANGED clean
       ELSE /\ error' = "KeyError"
            /\ clean' = FALSE
            /\ UNCHANGED <<phase, min_shell, max_shell, charges_iacm,
                           charges_elem, default_iacm, default_elem, has_iso,
                           iso_iacm, iso_elem, molids, present>>
    /\ UNCHANGED <<archive, ops>>
    /\ UNCHANGED <<nauty_vars, canon_vars, view_vars>>

----------------------------------------------------------------------------
(* charge/nauty.py: the Nauty object and its dreadnaut process.            *)

MaxRequests == 2        \* canonize calls per behaviour
MaxEofReads == 2        \* reads at end-of-file counted before the count starts again

ReadSize == 1000        \* stdout.read(1000)

\* Exit statuses a process can end with: a normal exit, an error exit, a
\* kill by signal 9 (Popen reports it as -9).
ExitCodes == {0, 1, -9}

NoProcess == [state |-> "none", returncode |-> 0]

\* One byte of solver output: the request it answers and the character.
Byte(k, ch) == [req |-> k, ch |-> ch]

\* What dreadnaut prints for request k: the data, then the text of the
\* "END\n" directive of the request.
Response(k) ==
    <<Byte(k, "x"), Byte(k, "E"), Byte(k, "N"), Byte(k, "D"), Byte(k, "nl")>>

\* The loop left as soon as anything was read, for comparison.
has_output(bytes) == bytes # <<>>

\* b'END' in out
HasEnd(bytes) ==
    \E i \in 1..(Len(bytes) - 2) :
        bytes[i].ch = "E" /\ bytes[i + 1].ch = "N" /\ bytes[i + 2].ch = "D"

\* bytes.strip(): leading and trailing whitespace removed.
RECURSIVE lstrip(_)
lstrip(bytes) ==
    IF bytes # <<>> /\ Head(bytes).ch = "nl" THEN lstrip(Tail(bytes)) ELSE bytes

RECURSIVE rstrip(_)
rstrip(bytes) ==
    IF bytes # <<>> /\ bytes[Len(bytes)].ch = "nl"
    THEN rstrip(SubSeq(bytes, 1, Len(bytes) - 1)) ELSE bytes

strip(bytes) == rstrip(lstrip(bytes))

\* Popen.poll(): None while the process runs, else its return code.
poll(proc) ==
    [is_none |-> proc.state = "running", value |-> proc.returncode]

\* Python's truth value of what poll returns: None and 0 are false.
truth(obj) == ~obj.is_none /\ obj.value # 0

\* The test of line 132: `not self.__process or self.__process.poll()`.
must_spawn(proc) == proc.state = "none" \/ truth(poll(proc))

\* __ensure_dreadnaut_running: the process after the call.
ensure_dreadnaut_running(proc) ==
    IF must_spawn(proc) THEN [state |-> "running", returncode |-> 0] ELSE proc

NautyInit ==
    /\ exe_ok \in BOOLEAN
    /\ nauty = "none"
    /\ process = NoProcess
    /\ spawns = 0
    /\ pc = "idle"
    /\ request = 0
    /\ pending = <<>>
    /\ pipe = <<>>
    /\ out = <<>>
    /\ result = <<>>
    /\ nauty_error = "ok"
    /\ eof_reads = 0

\* The check skipped, for comparison.
init_never_raises(ok) == FALSE

\* The test of line 33, on whether the path is an executable file.
init_raises(ok) == ~ok

\* Nauty.__init__.
NautyNew ==
    /\ nauty = "none"
    /\ IF init_raises(exe_ok)
       THEN /\ nauty' = "failed"
            /\ nauty_error' = "ValueError"
            /\ UNCHANGED <<process, spawns>>
       ELSE /\ nauty' = "ready"
            /\ nauty_error' = "ok"
            /\ process' = ensure_dreadnaut_running(process)
            /\ spawns' = spawns + (IF must_spawn(process) THEN 1 ELSE 0)
    /\ UNCHANGED <<exe_ok, pc, request, pending, pipe, out, result, eof_reads>>
    /\ UNCHANGED <<repo_vars, canon_vars, view_vars>>

\* canonize, lines 121-122, up to the first read of __communicate: ensure
\* the process runs, then write and flush the request. Writing to the pipe
\* of a process that has exited raises BrokenPipeError.
canonize_send ==
    /\ nauty = "ready"
    /\ pc = "idle"
    /\ request < MaxRequests
    /\ request' = request + 1
    /\ process' = ensure_dreadnaut_running(process)
    /\ spawns' = spawns + (IF must_spawn(process) THEN 1 ELSE 0)
    /\ IF process'.state = "running"
       THEN /\ pc' = "reading"
            /\ pending' = Response(request + 1)
            /\ pipe' = IF must_spawn(process) THEN <<>> ELSE pipe
            /\ nauty_error' = "ok"
       ELSE /\ pc' = "idle"
            /\ nauty_error' = "BrokenPipeError"
            /\ UNCHANGED <<pending, pipe>>
    /\ out' = <<>>
    /\ eof_reads' = 0
    /\ UNCHANGED <<exe_ok, nauty, result>>
    /\ UNCHANGED <<repo_vars, canon_vars, view_vars>>

\* The solver writes the next part of its output to the pipe.
solver_emit ==
    /\ process.state = "running"
    /\ pending # <<>>
    /\ \E k \in 1..Len(pending) :
        /\ pipe' = pipe \o SubSeq(pending, 1, k)
        /\ pending' = SubSeq(pending, k + 1, Len(pending))
    /\ UNCHANGED <<exe_ok, nauty, process, spawns, pc, request, out, result,
                   nauty_error, eof_reads>>
    /\ UNCHANGED <<repo_vars, canon_vars, view_vars>>

\* The process ends (it crashes, is killed, or quits): what it had not
\* written is lost, what is in the pipe can still be read.
process_exit ==
    /\ process.state = "running"
    /\ \E code \in ExitCodes :
        process' = [state |-> "exited", returncode |-> code]
    /\ pending' = <<>>
    /\ UNCHANGED <<exe_ok, nauty, spawns, pc, request, pipe, out, result,
                   nauty_error, eof_reads>>
    /\ UNCHANGED <<repo_vars, canon_vars, view_vars>>

\* __communicate, lines 154-158: one read(1000) that returns data, and the
\* loop test after it.
communicate_read ==
    /\ pc = "reading"
    /\ pipe # <<>>
    /\ LET n == IF Len(pipe) < ReadSize THEN Len(pipe) ELSE ReadSize
           got == out \o SubSeq(pipe, 1, n)
       IN  /\ pipe' = SubSeq(pipe, n + 1, Len(pipe))
           /\ out' = got
           /\ IF HasEnd(got)
              THEN pc' = "idle" /\ result' = strip(got)
              ELSE UNCHANGED <<pc, result>>
    /\ UNCHANGED <<exe_ok, nauty, process, spawns, request, pending,
                   nauty_error, eof_reads>>
    /\ UNCHANGED <<repo_vars, canon_vars, view_vars>>

\* __communicate, line 156 at end of file: the process has exited and the
\* pipe is empty, read returns b'' and the loop goes round again. Nothing
\* bounds the number of rounds; they are counted modulo MaxEofReads + 1.
communicate_read_eof ==
    /\ pc = "reading"
    /\ pipe = <<>>
    /\ process.state = "exited"
    /\ eof_reads' = (eof_reads + 1) % (MaxEofReads + 1)
    /\ UNCHANGED <<exe_ok, nauty, process, spawns, pc, request, pending, pipe,
                   out, result, nauty_error>>
    /\ UNCHANGED <<repo_vars, canon_vars, view_vars>>

\* Nauty.__del__, when the object is dropped outside an exchange. After a
\* failed construction the attribute __process does not exist and the
\* AttributeError is swallowed (lines 51-53). Otherwise a running process
\* is sent "q" and waited for one second: it has exited by then, or it has
\* not (wait raises TimeoutExpired, which leaves __del__ and is dropped by
\* the interpreter). The write to a process that exited with status 0
\* fails and leaves __del__ the same way. No process is started.
NautyDel ==
    /\ nauty \in {"failed", "ready"}
    /\ pc = "idle"
    /\ nauty' = "deleted"
    /\ IF nauty = "ready" /\ process.state = "running"
       THEN \/ process' = [state |-> "exited", returncode |-> 0] /\ pending' = <<>>
            \/ UNCHANGED <<process, pending>>
       ELSE UNCHANGED <<process, pending>>
    /\ UNCHANGED <<exe_ok, spawns, pc, request, pipe, out, result,
                   nauty_error, eof_reads>>
    /\ UNCHANGED <<repo_vars, canon_vars, view_vars>>

----------------------------------------------------------------------------
(* The relabelling experiment: a colored graph, a renaming of its nodes,   *)
(* and the key of each.                                                    *)

MaxNodes == 3           \* nodes of the graphs drawn

\* Atom types of the graphs drawn.
DrawnTypes == {"C", "H"}

NodePairs(n) == {{u, v} : u \in 1..n, v \in (1..n)} \ {{u} : u \in 1..n}

\* The renamings tried: the identity and the exchanges of two nodes. Every
\* permutation is a product of exchanges and every graph is drawn, so these
\* reach every renaming.
Renamings(n) ==
    {[v \in 1..n |-> IF v = x THEN y ELSE IF v = y THEN x ELSE v] :
        x \in 1..n, y \in 1..n}

\* The graph with node v renamed p[v]; nodes are listed in ascending order
\* of their new names, so the renaming changes the enumeration order too.
renamed(graph, p) ==
    [nodes |-> graph.nodes,
     atom_type |-> [w \in DOMAIN graph.atom_type |->
                        graph.atom_type[CHOOSE v \in DOMAIN p : p[v] = w]],
     edges |-> {{p[u] : u \in e} : e \in graph.edges}]

CanonInit ==
    /\ \E n \in 1..MaxNodes :
        /\ cgraph \in [nodes : {[i \in 1..n |-> i]},
                       atom_type : [1..n -> DrawnTypes],
                       edges : SUBSET NodePairs(n)]
        /\ ccore \in {NoCore} \cup (1..n)
        /\ cperm \in Renamings(n)
    /\ cshell = 0
    /\ ckeys = <<>>

\* canonize(G, core=c).
canonize_graph ==
    /\ ckeys = <<>>
    /\ ckeys' = <<canonize(cgraph, ccore)>>
    /\ UNCHANGED <<cgraph, ccore, cperm, cshell>>
    /\ UNCHANGED <<repo_vars, nauty_vars, view_vars>>

\* canonize(renamed G, core=renamed c).
canonize_renamed ==
    /\ Len(ckeys) = 1
    /\ ckeys' = Append(ckeys,
                    canonize(renamed(cgraph, cperm),
                             IF ccore = NoCore THEN NoCore ELSE cperm[ccore]))
    /\ UNCHANGED <<cgraph, ccore, cperm, cshell>>
    /\ UNCHANGED <<repo_vars, nauty_vars, view_vars>>

\* The exchange of the nodes u and v.
exchange(n, u, v) ==
    [w \in 1..n |-> IF w = u THEN v ELSE IF w = v THEN u ELSE w]

\* The core experiment: a graph, two of its atoms (ccore and the atom that
\* cperm exchanges with it) and a shell size.
CoreInit ==
    /\ \E n \in 2..MaxNodes :
        /\ cgraph \in [nodes : {[i \in 1..n |-> i]},
                       atom_type : [1..n -> DrawnTypes],
                       edges : SUBSET NodePairs(n)]
        /\ \E u \in 1..n, v \in 1..n :
            /\ u < v
            /\ ccore = u
            /\ cperm = exchange(n, u, v)
    /\ cshell \in 0..MaxShellBound
    /\ ckeys = <<>>

\* canonize_neighborhood(G, core, shell) for the first atom.
neighborhood_of_core ==
    /\ ckeys = <<>>
    /\ ckeys' = <<canonize_neighborhood(cgraph, ccore, cshell)>>
    /\ UNCHANGED <<cgraph, ccore, cperm, cshell>>
    /\ UNCHANGED <<repo_vars, nauty_vars, view_vars>>

\* canonize_neighborhood(G, core, shell) for the second atom.
neighborhood_of_other ==
    /\ Len(ckeys) = 1
    /\ ckeys' = Append(ckeys, canonize_neighborhood(cgraph, cperm[ccore], cshell))
    /\ UNCHANGED <<cgraph, ccore, cperm, cshell>>
    /\ UNCHANGED <<repo_vars, nauty_vars, view_vars>>

----------------------------------------------------------------------------
(* charge/validation.py: the filtered view. The repository under it is a   *)
(* traceable one: each bucket lists observations <<charge, molid, atom>>   *)
(* in ascending order, the stores are defaultdicts as the bulk build makes *)
(* them, and the isomorphism indices are readable as iso_iacm, iso_elem.   *)

MaxViewOps == 2         \* operations on the view per behaviour

\* Python's tuple ordering on observations.
TripleLess(p, q) ==
    p[1] < q[1] \/ (p[1] = q[1] /\ PairLess(<<p[2], p[3]>>, <<q[2], q[3]>>))

RECURSIVE sorted_triples(_)
sorted_triples(list) ==
    IF list = <<>> THEN <<>>
    ELSE LET rest == sorted_triples(Tail(list))
             x == Head(list)
             k == Cardinality({i \in 1..Len(rest) : TripleLess(rest[i], x)})
         IN  SubSeq(rest, 1, k) \o <<x>> \o SubSeq(rest, k + 1, Len(rest))

\* What the charge worker reports for molecule m in a traceable build: the
\* pairs <<key, <<charge, molid, atom>>>>, atom by atom.
traceable_items(m, typing, shell) ==
    LET c == Fragments[m][typing][shell].items
        g == graph_of(m, typing)
    IN  [i \in 1..Len(c) |-> <<c[i][1], <<c[i][2], m, g.nodes[i]>>>>]

RECURSIVE traceable_merge(_, _, _)
traceable_merge(done, typing, shell) ==
    IF done = <<>> THEN EmptyMap
    ELSE LET c == traceable_items(Head(done), typing, shell)
             rest == traceable_merge(Tail(done), typing, shell)
             keys == {c[i][1] : i \in 1..Len(c)} \cup DOMAIN rest
         IN  [k \in keys |-> concat_values(c, k)
                                \o (IF k \in DOMAIN rest THEN rest[k] ELSE <<>>)]

\* The store of a typing after a traceable build.
traceable_charges(done, typing, lo, hi) ==
    [shell \in lo..hi |->
        [k \in DOMAIN traceable_merge(done, typing, shell) |->
            sorted_triples(traceable_merge(done, typing, shell)[k])]]

\* Always true, for comparison.
contains_anything(charges, key) == TRUE

\* `key in self.__charges`, `molid in repo.iso_iacm`
contains(charges, key) == key \in DOMAIN charges

\* `self.__charges[key]`, `repo.iso_iacm[molid]` on a defaultdict(list): the
\* value, and the dict after the lookup (a missing key is created with an
\* empty list).
subscript(charges, key) ==
    IF key \in DOMAIN charges
    THEN [value |-> charges[key], charges |-> charges]
    ELSE [value |-> <<>>, charges |-> MapPut(charges, key, <<>>)]

\* Every charge of the bucket, for comparison.
unfiltered_copy(traceable, blocked_molids) ==
    [i \in 1..Len(traceable) |-> traceable[i][1]]

\* _FilteredCharges.__filtered_copy: the charges of the observations whose
\* molid is not blocked.
RECURSIVE filtered_copy(_, _)
filtered_copy(traceable, blocked_molids) ==
    IF traceable = <<>> THEN <<>>
    ELSE (IF Head(traceable)[2] \in blocked_molids THEN <<>>
          ELSE <<Head(traceable)[1]>>)
            \o filtered_copy(Tail(traceable), blocked_molids)

\* _FilteredCharges.__getitem__: what it returns or that it raises
\* KeyError, and the wrapped dict afterwards.
getitem_found(charges, blocked_molids, key, r) ==
    [value |-> filtered_copy(r.value, blocked_molids),
     raised |-> filtered_copy(r.value, blocked_molids) = <<>>,
     charges |-> r.charges]

getitem(charges, blocked_molids, key) ==
    IF contains(charges, key)
    THEN getitem_found(charges, blocked_molids, key, subscript(charges, key))
    ELSE [value |-> <<>>, raised |-> TRUE, charges |-> charges]

\* _FilteredRepository.__init__, lines 484-487 and 494-497.
\* The list of excluded molids, and the index after the lookup.
excluded_of(iso, molid) ==
    IF contains(iso, molid) THEN subscript(iso, molid)
    ELSE [value |-> <<molid>>, charges |-> iso]

NoView == [made |-> FALSE, molid |-> 0,
           excluded |-> [iacm |-> <<>>, elem |-> <<>>],
           shells |-> [iacm |-> {}, elem |-> {}]]

NoResult == [op |-> "none", typing |-> "iacm", shell |-> 0, key |-> <<>>,
             value |-> <<>>, raised |-> FALSE, length |-> 0]

\* The keys a caller may look up: the fingerprints of the neighborhoods of
\* any molecule file, in the corpus or not.
LookupKeys(typing, shell) ==
    UNION {{Fragments[m][typing][shell].items[i][1] :
                i \in 1..Len(Fragments[m][typing][shell].items)} : m \in Molids}

\* A traceable repository built from some corpus.
ViewInit ==
    /\ \E ids \in SUBSET ChargedMolids : \E listing \in Orderings(ids) :
        \E p \in ShellArgs :
            /\ t_charges = [typing \in Typings |->
                    traceable_charges(listing, typing, Max(p[1], 0), p[2])]
            /\ t_iso = [typing \in Typings |->
                    make_isomorphics(listing, make_canons(ids, typing))]
    /\ t_built = [charges |-> t_charges, iso |-> t_iso]
    /\ view = NoView
    /\ vresult = NoResult
    /\ vops = 0

\* _FilteredRepository(repo, molid).
FilteredRepository(molid) ==
    /\ ~view.made
    /\ view' = [made |-> TRUE, molid |-> molid,
                excluded |-> [typing \in Typings |->
                                excluded_of(t_iso[typing], molid).value],
                shells |-> [typing \in Typings |-> DOMAIN t_charges[typing]]]
    /\ t_iso' = [typing \in Typings |-> excluded_of(t_iso[typing], molid).charges]
    /\ vresult' = [NoResult EXCEPT !.op = "init"]
    /\ UNCHANGED <<t_charges, t_built, vops>>
    /\ UNCHANGED <<repo_vars, nauty_vars, canon_vars>>

\* view.charges_<typing>[shell][key]: the view's own dict is a plain dict,
\* a shell it lacks raises KeyError.
view_getitem(typing, shell, key) ==
    /\ view.made
    /\ vops < MaxViewOps
    /\ vops' = vops + 1
    /\ IF shell \in view.shells[typing]
       THEN \E r \in {getitem(t_charges[typing][shell],
                              Range(view.excluded[typing]), key)} :
                /\ t_charges' = [t_charges EXCEPT ![typing][shell] = r.charges]
                /\ vresult' = [op |-> "getitem", typing |-> typing,
                               shell |-> shell, key |-> key,
                               value |-> r.value, raised |-> r.raised,
                               length |-> 0]
       ELSE /\ vresult' = [op |-> "getitem", typing |-> typing,
                           shell |-> shell, key |-> key,
                           value |-> <<>>, raised |-> TRUE, length |-> 0]
            /\ UNCHANGED t_charges
    /\ UNCHANGED <<t_iso, t_built, view>>
    /\ UNCHANGED <<repo_vars, nauty_vars, canon_vars>>

\* _FilteredCharges.__setitem__ and __delitem__: pass.
view_setitem(typing, shell, key) ==
    /\ view.made
    /\ vops < MaxViewOps
    /\ shell \in view.shells[typing]
    /\ vops' = vops + 1
    /\ vresult' = [NoResult EXCEPT !.op = "setitem", !.typing = typing,
                                   !.shell = shell, !.key = key]
    /\ UNCHANGED <<t_charges, t_iso, t_built, view>>
    /\ UNCHANGED <<repo_vars, nauty_vars, canon_vars>>

view_delitem(typing, shell, key) ==
    /\ view.made
    /\ vops < MaxViewOps
    /\ shell \in view.shells[typing]
    /\ vops' = vops + 1
    /\ vresult' = [NoResult EXCEPT !.op = "delitem", !.typing = typing,
                                   !.shell = shell, !.key = key]
    /\ UNCHANGED <<t_charges, t_iso, t_built, view>>
    /\ UNCHANGED <<repo_vars, nauty_vars, canon_vars>>

\* _FilteredCharges.__len__: the number of keys of the wrapped dict.
view_len(typing, shell) ==
    /\ view.made
    /\ vops < MaxViewOps
    /\ shell \in view.shells[typing]
    /\ vops' = vops + 1
    /\ vresult' = [NoResult EXCEPT !.op = "len", !.typing = typing,
                                   !.shell = shell,
                                   !.length = Cardinality(DOMAIN t_charges[typing][shell])]
    /\ UNCHANGED <<t_charges, t_iso, t_built, view>>
    /\ UNCHANGED <<repo_vars, nauty_vars, canon_vars>>

\* The variables of a part of the model that a specification leaves idle.
NautyIdle ==
    /\ exe_ok = TRUE
    /\ nauty = "none"
    /\ process = NoProcess
    /\ spawns = 0
    /\ pc = "idle"
    /\ request = 0
    /\ pending = <<>>
    /\ pipe = <<>>
    /\ out = <<>>
    /\ result = <<>>
    /\ nauty_error = "ok"
    /\ eof_reads = 0

CanonIdle ==
    /\ cgraph = [nodes |-> <<>>, atom_type |-> <<>>, edges |-> {}]
    /\ ccore = NoCore
    /\ cperm = <<>>
    /\ cshell = 0
    /\ ckeys = <<>>

ViewIdle ==
    /\ t_charges = [typing \in Typings |-> EmptyMap]
    /\ t_iso = [typing \in Typings |-> EmptyMap]
    /\ t_built = [charges |-> t_charges, iso |-> t_iso]
    /\ view = NoView
    /\ vresult = NoResult
    /\ vops = 0

----------------------------------------------------------------------------
(* Specifications.                                                         *)

\* The repository: construction, bulk build, add, subtract, write, read.
Init == RepoInit /\ NautyIdle /\ CanonIdle /\ ViewIdle

Next ==
    \/ \E p \in ShellArgs : New(p[1], p[2])
    \/ CreateFrom
    \/ Add
    \/ Subtract
    \/ write
    \/ read

Spec == Init /\ [][Next]_vars

\* The repository in memory: no archive is written or read.
NextMemory ==
    \/ \E p \in ShellArgs : New(p[1], p[2])
    \/ CreateFrom
    \/ Add
    \/ Subtract

SpecMemory == Init /\ [][NextMemory]_vars

\* The Nauty object and its solver process.
InitNauty == RepoInit /\ NautyInit /\ CanonIdle /\ ViewIdle

NextNauty ==
    \/ NautyNew
    \/ NautyDel
    \/ canonize_send
    \/ solver_emit
    \/ process_exit
    \/ communicate_read
    \/ communicate_read_eof

SpecNauty == InitNauty /\ [][NextNauty]_vars

\* The same, with progress: a running solver goes on writing its output,
\* and the thread inside __communicate goes on reading (a read returns as
\* soon as data or end-of-file is there). Nothing obliges the process to
\* exit, or the caller to construct or to call.
SpecNautyLive ==
    /\ InitNauty
    /\ [][NextNauty]_vars
    /\ WF_vars(solver_emit)
    /\ WF_vars(communicate_read)
    /\ WF_vars(communicate_read_eof)

\* canonize on a graph and on a renaming of it.
InitCanon == RepoInit /\ NautyIdle /\ CanonInit /\ ViewIdle

NextCanon ==
    \/ canonize_graph
    \/ canonize_renamed

SpecCanon == InitCanon /\ [][NextCanon]_vars

\* canonize_neighborhood on two atoms of one graph.
InitCore == RepoInit /\ NautyIdle /\ CoreInit /\ ViewIdle

NextCore ==
    \/ neighborhood_of_core
    \/ neighborhood_of_other

SpecCore == InitCore /\ [][NextCore]_vars

\* A filtered view of a traceable repository and the operations on it.
InitView == RepoInit /\ NautyIdle /\ CanonIdle /\ ViewInit

NextView ==
    \/ \E molid \in Molids : FilteredRepository(molid)
    \/ \E typing \in Typings, shell \in 0..MaxShellBound :
        \E key \in LookupKeys(typing, shell) :
            \/ view_getitem(typing, shell, key)
            \/ view_setitem(typing, shell, key)
            \/ view_delitem(typing, shell, key)
    \/ \E typing \in Typings, shell \in 0..MaxShellBound : view_len(typing, shell)

SpecView == InitView /\ [][NextView]_vars

----------------------------------------------------------------------------
(* What contributed to the repository.                                     *)

RECURSIVE repeat(_, _)
repeat(list, n) == IF n = 0 THEN <<>> ELSE list \o repeat(list, n - 1)

\* The charges that the molecules currently added contribute to the bucket
\* of `key` at `shell`, molecule by molecule.
RECURSIVE contributed_from(_, _, _, _)
contributed_from(m, typing, shell, key) ==
    IF m \notin Molids THEN <<>>
    ELSE repeat(concat_values(Fragments[m][typing][shell].items, key), present[m])
            \o contributed_from(m + 1, typing, shell, key)

Contributed(typing, shell, key) == sorted(contributed_from(1, typing, shell, key))

charges_of(typing) == IF typing = "iacm" THEN charges_iacm ELSE charges_elem

iso_of(typing) == IF typing = "iacm" THEN iso_iacm ELSE iso_elem

\* A repository exists and every call so far returned normally and kept to
\* its contract (subtract named a molecule that was contributing).
Reachable == phase # "none" /\ clean

----------------------------------------------------------------------------
(* The properties checked.                                                 *)

\* C1: after any sequence of add / subtract calls on an empty, bulk-built
\* or restored repository, every charge bucket of charges_iacm and
\* charges_elem is non-decreasing and holds exactly the charges that the
\* molecules currently added contribute at that shell and fingerprint.
C1_BucketsHoldCurrentContributions ==
    Reachable =>
        \A typing \in Typings : \A shell \in DOMAIN charges_of(typing) :
            \A key \in DOMAIN charges_of(typing)[shell] :
                /\ IsSorted(charges_of(typing)[shell][key])
                /\ charges_of(typing)[shell][key] = Contributed(typing, shell, key)

\* C2: for a repository R and a molecule M that does not contribute to R,
\* add(M) followed by subtract(M) succeeds and leaves both stores equal to
\* R: the same shells, the same fingerprints per shell, the same charges
\* per bucket. (R is bulk-built or restored; C6 is about the empty one.)
C2_AddThenSubtractRestores ==
    (Reachable /\ phase \in {"built", "restored"}) =>
        \A m \in ChargedMolids : present[m] = 0 =>
            \E r1 \in {mutate("a", m, StoreIacm, StoreElem)} :
                \E r2 \in {mutate("s", m, r1.iacm, r1.elem)} :
                    /\ r1.error = "ok"
                    /\ r2.error = "ok"
                    /\ r2.iacm.map = charges_iacm
                    /\ r2.elem.map = charges_elem

\* The molecule ids of the corpus whose whole-molecule fingerprint equals
\* that of m.
isomorphic_to(m, typing) ==
    {x \in Range(molids) :
        canonize(graph_of(x, typing), NoCore) = canonize(graph_of(m, typing), NoCore)}

\* C3: in a repository bulk-built by create_from, every molecule id whose
\* whole-molecule fingerprint is shared by another id of the corpus has an
\* isomorphism-index entry listing all ids with that fingerprint, whatever
\* the order in which the directory listed them.
C3_IsomorphicsListWholeGroup ==
    phase = "built" =>
        \A typing \in Typings : \A m \in Range(molids) :
            Cardinality(isomorphic_to(m, typing)) > 1 =>
                /\ m \in DOMAIN iso_of(typing)
                /\ Range(iso_of(typing)[m]) = isomorphic_to(m, typing)

\* C4: in every isomorphism index produced by create_from each recorded
\* group is reflexive and symmetric (if B is in the entry of A then A is in
\* its own entry, B has an entry and A is in the entry of B), and there is
\* no entry for a molecule whose group has a single member.
C4_IsomorphicsReflexiveSymmetric ==
    phase = "built" =>
        \A typing \in Typings : \A m \in DOMAIN iso_of(typing) :
            /\ m \in Range(iso_of(typing)[m])
            /\ Len(iso_of(typing)[m]) > 1
            /\ Cardinality(isomorphic_to(m, typing)) > 1
            /\ \A b \in Range(iso_of(typing)[m]) :
                /\ b \in DOMAIN iso_of(typing)
                /\ m \in Range(iso_of(typing)[b])

\* A corpus with an isomorphic pair and a molecule that is alone.
C4_Witness ==
    /\ phase = "built"
    /\ Range(molids) = {1, 2, 3}
    /\ DOMAIN iso_iacm = {1, 2}
    /\ Range(iso_iacm[1]) = {1, 2}
    /\ 3 \in DOMAIN iso_elem

\* C5: for any repository R, bulk-built, restored, or constructed empty,
\* write(R) succeeds and read of the archive gives a repository whose
\* min_shell, max_shell, charges_iacm, charges_elem, iso_iacm and iso_elem
\* equal those of R.
C5_WriteReadRoundTrip ==
    phase # "none" =>
        /\ written.entries = ArchiveEntries
        /\ restored(written).min_shell = min_shell
        /\ restored(written).max_shell = max_shell
        /\ restored(written).charges_iacm = charges_iacm
        /\ restored(written).charges_elem = charges_elem
        /\ restored(written).iso_iacm = iso_iacm
        /\ restored(written).iso_elem = iso_elem

\* What add(m) stores in an empty repository: the observations of m at the
\* shells add covers.
RECURSIVE observed(_, _, _, _)
observed(m, typing, shell, last) ==
    IF shell > last THEN EmptyMap
    ELSE LET c == Fragments[m][typing][shell].items
         IN  MapPut(observed(m, typing, shell + 1, last), shell,
                    [k \in {c[i][1] : i \in 1..Len(c)} |-> sorted(concat_values(c, k))])

\* C6: on a repository constructed empty, add(M) completes without error
\* and afterwards each store holds exactly the observations of M at the
\* shells add covers, and subtract(M) then returns it to empty.
C6_EmptyRepositoryIsMutable ==
    (phase = "empty" /\ ops = 0 /\ max_shell >= IterateFirstShell) =>
        \A m \in ChargedMolids :
            \E r1 \in {mutate("a", m, StoreIacm, StoreElem)} :
                \E r2 \in {mutate("s", m, r1.iacm, r1.elem)} :
                    /\ r1.error = "ok"
                    /\ r1.iacm.map = observed(m, "iacm", IterateFirstShell, max_shell)
                    /\ r1.elem.map = observed(m, "elem", IterateFirstShell, max_shell)
                    /\ r2.error = "ok"
                    /\ r2.iacm.map = EmptyMap
                    /\ r2.elem.map = EmptyMap

\* C7: in every reachable repository state no shell entry of either store
\* maps to an empty fingerprint map and no fingerprint maps to an empty
\* charge list.
C7_NoEmptyEntries ==
    Reachable =>
        \A typing \in Typings : \A shell \in DOMAIN charges_of(typing) :
            /\ DOMAIN charges_of(typing)[shell] # {}
            /\ \A key \in DOMAIN charges_of(typing)[shell] :
                charges_of(typing)[shell][key] # <<>>

\* C8: in every reachable repository state every shell key of charges_iacm
\* and charges_elem lies within [min_shell, max_shell].
C8_ShellKeysWithinRange ==
    Reachable =>
        \A typing \in Typings : \A shell \in DOMAIN charges_of(typing) :
            min_shell <= shell /\ shell <= max_shell

\* C9: the ensure-running step spawns a fresh process exactly when no
\* process exists or the existing one has exited, with any exit status,
\* and so every exchange is sent to a live process.
C9_EnsureRunningReplacesExited ==
    /\ nauty = "ready" => (must_spawn(process) <=> process.state # "running")
    /\ nauty_error # "BrokenPipeError"

\* C10: for a colored graph G and a renaming of its nodes that preserves
\* colors and adjacency, canonize(G) equals canonize(renamed G); the solver
\* returns a canonical labelling for the partition and edges submitted.
C10_RelabelingInvariance ==
    Len(ckeys) = 2 => ckeys[1] = ckeys[2]

\* Both keys are computed, for a graph with a core, two colors and a bond,
\* under a renaming that changes the order in which the colors are listed.
C10_Witness ==
    /\ Len(ckeys) = 2
    /\ ccore # NoCore
    /\ cgraph.edges # {}
    /\ Range(cgraph.atom_type) = DrawnTypes
    /\ renamed(cgraph, cperm).atom_type # cgraph.atom_type

\* The atoms of the neighborhood of `core`.
fragment_nodes(graph, core, shell) ==
    IF shell > 0 THEN bfs_nodes(graph, core, shell) ELSE {core}

\* The neighborhoods of u and of v look alike: some one-to-one renaming of
\* the atoms takes u to v and the neighborhood of u onto that of v, atom
\* types and bonds kept.
Alike(graph, u, v, shell) ==
    LET n == Len(graph.nodes)
        A == fragment_nodes(graph, u, shell)
        B == fragment_nodes(graph, v, shell)
    IN  \E p \in [1..n -> 1..n] :
            /\ \A x, y \in 1..n : x # y => p[x] # p[y]
            /\ p[u] = v
            /\ {p[x] : x \in A} = B
            /\ \A x \in A : graph.atom_type[p[x]] = graph.atom_type[x]
            /\ \A x, y \in A : ({x, y} \in graph.edges) <=> ({p[x], p[y]} \in graph.edges)

\* C11: when two atoms of a graph are structurally indistinguishable,
\* canonize_neighborhood returns the same fingerprint whichever of them is
\* the core; when they are distinguished (another atom type, or
\* neighborhoods that do not look alike) the fingerprints differ.
C11_CoreSymmetry ==
    Len(ckeys) = 2 =>
        /\ Alike(cgraph, ccore, cperm[ccore], cshell) => ckeys[1] = ckeys[2]
        /\ ~Alike(cgraph, ccore, cperm[ccore], cshell) => ckeys[1] # ckeys[2]
        /\ cgraph.atom_type[ccore] # cgraph.atom_type[cperm[ccore]]
                => ckeys[1] # ckeys[2]

\* Two hydrogens bonded to one carbon, each with the carbon in its shell.
C11_Witness ==
    /\ Len(ckeys) = 2
    /\ cshell = 1
    /\ Len(cgraph.nodes) = 3
    /\ cgraph.atom_type = <<"H", "C", "H">>
    /\ cgraph.edges = {{1, 2}, {2, 3}}
    /\ ccore = 1
    /\ cperm[ccore] = 3
    /\ ckeys[1] = ckeys[2]

\* C12: in the corpus build the store of each typing does not depend on the
\* order in which the workers complete: for every shell of
\* [min_shell, max_shell] and every fingerprint the bucket is the ascending
\* sort of all charges the workers reported for it, under every order of
\* completion.
C12_BuildIsOrderIndependent ==
    (phase = "built" /\ ops = 0) =>
        \A typing \in Typings :
            /\ DOMAIN charges_of(typing) = min_shell..max_shell
            /\ \A done \in Orderings(Range(molids)) :
                generate_charges(done, typing, min_shell, max_shell) = charges_of(typing)
            /\ \A shell \in min_shell..max_shell :
                /\ \A m \in Range(molids) :
                    \A i \in 1..Len(Fragments[m][typing][shell].items) :
                        Fragments[m][typing][shell].items[i][1]
                            \in DOMAIN charges_of(typing)[shell]
                /\ \A key \in DOMAIN charges_of(typing)[shell] :
                    charges_of(typing)[shell][key] = Contributed(typing, shell, key)

\* Molecules 1 and 3 share a bucket, and the worker of molecule 3 delivering
\* first leaves it in descending order before the sort.
C12_Witness ==
    /\ phase = "built"
    /\ ops = 0
    /\ Range(molids) = {1, 3}
    /\ min_shell = 0
    /\ \E key \in DOMAIN charges_elem[0] :
        /\ merge_shell(<<3, 1>>, "elem", 0)[key] = <<3, 2>>
        /\ merge_shell(<<1, 3>>, "elem", 0)[key] = <<2, 3>>
        /\ charges_elem[0][key] = <<2, 3>>

ExclusionSet(typing) ==
    IF view.molid \in DOMAIN t_built.iso[typing]
    THEN Range(t_built.iso[typing][view.molid])
    ELSE {view.molid}

\* The charges of the bucket of `key` that such a view must show.
Visible(typing, shell, key) ==
    LET kept == SelectSeq(t_built.charges[typing][shell][key],
                          LAMBDA o : o[2] \notin ExclusionSet(typing))
    IN  [i \in 1..Len(kept) |-> kept[i][1]]

\* C14: a filtered view made for molecule id m excludes {m} when m has no
\* entry in the typing's isomorphism index and the recorded group
\* otherwise; a lookup of a fingerprint at a shell returns the charges of
\* the bucket's observations whose molecule id is not excluded, in the
\* bucket's order, and raises KeyError (never returns an empty list) when
\* the fingerprint is absent or every observation is excluded.
C14_FilteredLookup ==
    view.made =>
        /\ \A typing \in Typings :
            Range(view.excluded[typing]) = ExclusionSet(typing)
        /\ vresult.op = "getitem" =>
            IF /\ vresult.shell \in DOMAIN t_built.charges[vresult.typing]
               /\ vresult.key \in DOMAIN t_built.charges[vresult.typing][vresult.shell]
               /\ Visible(vresult.typing, vresult.shell, vresult.key) # <<>>
            THEN /\ ~vresult.raised
                 /\ vresult.value =
                        Visible(vresult.typing, vresult.shell, vresult.key)
            ELSE vresult.raised

\* The view made for molecule 1 hides its isomorph 2 as well: of the three
\* carbon charges in the bucket only that of molecule 3 is returned.
C14_Witness ==
    /\ view.made
    /\ view.molid = 1
    /\ Range(view.excluded["iacm"]) = {1, 2}
    /\ vresult.op = "getitem"
    /\ vresult.typing = "iacm"
    /\ vresult.shell = 0
    /\ ~vresult.raised
    /\ vresult.value = <<3>>
    /\ Len(t_built.charges["iacm"][0][vresult.key]) = 3

\* C15: no operation on a filtered view (construction, lookup, item
\* assignment, item deletion, length) changes the repository under it: its
\* stores and isomorphism indices stay as they were built.
C15_ViewLeavesRepositoryUnchanged ==
    /\ t_charges = t_built.charges
    /\ t_iso = t_built.iso

\* A lookup of a fingerprint that the store lacks has been made, after
\* another operation on the view.
C15_Witness ==
    /\ view.made
    /\ vops = MaxViewOps
    /\ vresult.op = "getitem"
    /\ vresult.raised
    /\ vresult.shell \in DOMAIN t_built.charges[vresult.typing]
    /\ vresult.key \notin DOMAIN t_built.charges[vresult.typing][vresult.shell]

\* The fingerprint of the shell-1 neighborhood of the carbon of molecule 1.
CarbonKey(typing) == canonize_neighborhood(graph_of(1, typing), 1, 1)

\* Both carbon observations of molecules 1 and 2 are in one shell-1 bucket.
CarbonBucketShared ==
    \A typing \in Typings :
        /\ canonize_neighborhood(graph_of(2, typing), 2, 1) = CarbonKey(typing)
        /\ 1 \in DOMAIN charges_of(typing)
        /\ CarbonKey(typing) \in DOMAIN charges_of(typing)[1]
        /\ charges_of(typing)[1][CarbonKey(typing)] = <<2, 2>>

\* C16: building a repository with min_shell = 1, max_shell = 2 from the
\* two isomorphic molecules 1 and 2 (same colors and bonds, different node
\* order, carbon charge 2) puts both carbon-centred shell-1 observations in
\* one bucket [2, 2] and records the isomorphism index {1:[1,2], 2:[1,2]},
\* whatever the order of the directory listing.
C16_IsomorphicPairIsMerged ==
    (phase = "built" /\ ops = 0 /\ min_shell = 1 /\ max_shell = 2
        /\ Range(molids) = {1, 2}) =>
            /\ CarbonBucketShared
            /\ iso_iacm = (1 :> <<1, 2>> @@ 2 :> <<1, 2>>)
            /\ iso_elem = (1 :> <<1, 2>> @@ 2 :> <<1, 2>>)

\* The buckets of a store that hold a single observation, as <<shell, key>>.
SingleBuckets(store) ==
    {sk \in UNION {{<<shell, key>> : key \in DOMAIN store.map[shell]} :
                        shell \in DOMAIN store.map} :
        Len(store.map[sk[1]][sk[2]]) = 1}

\* The store after s has removed the only observation of bucket sk.
Removed(store, sk) == s(sk[1], sk[2], store.map[sk[1]][sk[2]][1], store)

\* Removing the only observation of bucket sk takes away that bucket, and
\* its shell entry if no other bucket is in it, and nothing else.
RemovesOnlyItsBucket(store, sk) ==
    \E r \in {Removed(store, sk)} :
        /\ r.error = "ok"
        /\ r.repo.map =
            IF DOMAIN store.map[sk[1]] = {sk[2]}
            THEN MapDel(store.map, sk[1])
            ELSE [store.map EXCEPT ![sk[1]] = MapDel(@, sk[2])]

\* C17: subtract applied where a bucket holds a single observation removes
\* the bucket, and removes the shell entry only if it is thereby empty;
\* every other shell entry and every other bucket of the store is left as
\* it was. Checked on every store of a repository, and on every store one
\* such removal later (where a shell entry may be down to its last bucket).
C17_SubtractRemovesOnlyItsBucket ==
    Reachable =>
        \A store \in {StoreIacm, StoreElem} : \A sk \in SingleBuckets(store) :
            /\ RemovesOnlyItsBucket(store, sk)
            /\ \A sk2 \in SingleBuckets(Removed(store, sk).repo) :
                    RemovesOnlyItsBucket(Removed(store, sk).repo, sk2)

\* Molecule 3 has been subtracted from a repository built from molecules 1
\* and 3: its own buckets are gone, those of molecule 1 are as they were.
C17_Witness ==
    /\ phase = "built"
    /\ clean
    /\ ops = 1
    /\ Range(molids) = {1, 3}
    /\ present = <<1, 0, 0, 0>>
    /\ min_shell = 1
    /\ max_shell = 2
    /\ charges_iacm = generate_charges(<<1>>, "iacm", 1, 2)
    /\ charges_elem = generate_charges(<<1>>, "elem", 1, 2)

\* An exchange is waiting and the sentinel is written: END is in what was
\* read or is in the pipe.
EndWritten == pc = "reading" /\ HasEnd(out \o pipe)

\* An exchange is waiting and the solver process is gone with no END
\* written: its output ends without the sentinel.
ExitedBeforeEnd ==
    pc = "reading" /\ process.state = "exited" /\ ~HasEnd(out \o pipe)

\* C18: an exchange with the solver does not wait forever in either
\* terminating case: once the END sentinel is written the exchange
\* returns, and once the process has exited without writing END the
\* exchange stops waiting.
C18_ExchangeTerminates == (EndWritten \/ ExitedBeforeEnd) ~> (pc = "idle")

\* C19: constructing a Nauty with a path that is not an executable file
\* fails at once with ValueError; no dreadnaut process is started then or
\* later, no request is ever sent, and the object is never usable. Only
\* when the check passes is a process started, and then one is.
C19_BadExecutableFailsFast ==
    /\ ~exe_ok =>
        /\ spawns = 0
        /\ process = NoProcess
        /\ request = 0
        /\ nauty \in {"none", "failed", "deleted"}
        /\ nauty # "none" => nauty_error = "ValueError"
    /\ (exe_ok /\ nauty # "none") => (spawns >= 1 /\ process # NoProcess)

\* The constructor has refused a bad path, and the object has been dropped.
C19_Witness ==
    ~exe_ok /\ nauty = "deleted" /\ nauty_error = "ValueError" /\ spawns = 0

\* The molecule files in which some atom has no partial charge.
UnchargedMolids == Molids \ ChargedMolids

\* The position, in node order, of the first atom of molid without charge.
FirstUncharged(molid) ==
    CHOOSE i \in 1..Len(Molecule[molid].nodes) :
        /\ Molecule[molid].partial_charge[Molecule[molid].nodes[i]] = NoCharge
        /\ \A j \in 1..(i - 1) :
            Molecule[molid].partial_charge[Molecule[molid].nodes[j]] # NoCharge

\* The observations of the atoms before that one, at the first shell of
\* the IACM pass.
EarlierItems(molid) ==
    [j \in 1..(FirstUncharged(molid) - 1) |->
        <<canonize_neighborhood(graph_of(molid, "iacm"),
                                Molecule[molid].nodes[j], IterateFirstShell),
          Molecule[molid].partial_charge[Molecule[molid].nodes[j]]>>]

\* The IACM store with exactly those observations applied.
EarlierApplied(op, molid) ==
    iterate_items(op, IterateFirstShell, EarlierItems(molid), FALSE, Ok(StoreIacm))

\* op on molid ends with the KeyError that names the first atom without
\* charge, with the earlier atoms' first-shell observations applied to the
\* IACM store and nothing else changed.
StopsAtUncharged(op, molid) ==
    \E r \in {mutate(op, molid, StoreIacm, StoreElem)} :
        /\ r.error = "KeyError"
        /\ Fragments[molid]["iacm"][IterateFirstShell].raised
        /\ Fragments[molid]["iacm"][IterateFirstShell].atom =
                Molecule[molid].nodes[FirstUncharged(molid)]
        /\ r.iacm = EarlierApplied(op, molid).repo
        /\ r.elem = StoreElem

\* C20: add and subtract of a molecule with an atom lacking a partial
\* charge end with the KeyError naming that atom, raised before any
\* observation of that atom, of a later atom or of a later shell is applied:
\* the stores are as the observations of the earlier atoms left them (where
\* those could be applied).
C20_MissingChargeStopsTheCall ==
    phase # "none" =>
        \A op \in {"a", "s"} : \A molid \in UnchargedMolids :
            EarlierApplied(op, molid).error = "ok" => StopsAtUncharged(op, molid)

\* The cells of the partition in the request canonize builds for `graph`
\* with `core`: what __format_partition prints between the bars.
cells_sent(graph, core) ==
    make_nauty_input(graph, node_colors_of(graph, core)).partition

\* The Color of the node at positional index i (0-based).
color_at(graph, core, i) == node_colors_of(graph, core)[i + 1]

\* Python's order on Colors: False before True, then the atom type string.
ColorLess(c, d) ==
    \/ ~c[1] /\ d[1]
    \/ c[1] = d[1] /\ TypeRank(c[2]) < TypeRank(d[2])

\* The partition sent for `graph` with `core` is a partition of 0..n-1 by
\* Color, in ascending Color order, with the core alone in its group.
PartitionByColor(graph, core) ==
    \E cells \in {cells_sent(graph, core)} :
        /\ \A i \in 0..(Len(graph.nodes) - 1) :
            Cardinality({<<g, k>> \in (1..Len(cells)) \X (1..Len(graph.nodes)) :
                            k <= Len(cells[g]) /\ cells[g][k] = i}) = 1
        /\ \A g \in 1..Len(cells) :
            /\ cells[g] # <<>>
            /\ Range(cells[g]) \subseteq 0..(Len(graph.nodes) - 1)
        /\ \A g, h \in 1..Len(cells) : \A i \in Range(cells[g]), j \in Range(cells[h]) :
            /\ (g = h) <=> (color_at(graph, core, i) = color_at(graph, core, j))
            /\ g < h => ColorLess(color_at(graph, core, i), color_at(graph, core, j))
        /\ \A g \in 1..Len(cells) : \A i \in Range(cells[g]) :
            graph.nodes[i + 1] = core => cells[g] = <<i>>

\* C21: the partition sent to the solver is a partition of the positional
\* node indices 0..n-1 (each index in exactly one group), two indices share
\* a group iff their nodes have the same Color (is_core, atom_type), groups
\* come in ascending Color order, and the core is alone in its group, apart
\* from the other nodes of its atom type.
C21_PartitionByColor ==
    Len(ckeys) >= 1 =>
        PartitionByColor(neighborhood(cgraph, ccore, cshell), ccore)

\* The key of a three-atom neighborhood has been computed in which another
\* atom has the core's type and a third type occurs: three groups are sent.
C21_Witness ==
    /\ Len(ckeys) >= 1
    /\ Len(neighborhood(cgraph, ccore, cshell).nodes) = 3
    /\ \E v \in 1..3 : v # ccore /\ cgraph.atom_type[v] = cgraph.atom_type[ccore]
    /\ Len(cells_sent(neighborhood(cgraph, ccore, cshell), ccore)) = 3

\* The characters of a byte sequence.
chars(bytes) == [i \in 1..Len(bytes) |-> bytes[i].ch]

\* The sentinel of request k is in the bytes: E, N, D in a row, printed in
\* answer to request k.
EndOf(k, bytes) ==
    \E i \in 1..(Len(bytes) - 2) :
        /\ SubSeq(chars(bytes), i, i + 2) = <<"E", "N", "D">>
        /\ \A j \in i..(i + 2) : bytes[j].req = k

\* text is bytes without its leading and trailing whitespace.
Trimmed(text, bytes) ==
    \E i \in 1..(Len(bytes) + 1), j \in 0..Len(bytes) :
        /\ text = SubSeq(bytes, i, j)
        /\ \A k \in (1..(i - 1)) \cup ((j + 1)..Len(bytes)) : bytes[k].ch = "nl"
        /\ text # <<>> => (text[1].ch # "nl" /\ text[Len(text)].ch # "nl")

\* An exchange has returned (and none has failed or started since).
Returned == nauty = "ready" /\ pc = "idle" /\ request >= 1 /\ nauty_error = "ok"

\* C22: an exchange returns only after END, printed for its request, is in
\* the output accumulated for it, however the reads cut that output; the
\* text returned is all of the accumulated output, trimmed; and no text
\* returned or being accumulated holds a byte of the response to a request
\* later than its own.
C22_ReturnsAfterEnd ==
    /\ Returned =>
        /\ EndOf(request, out)
        /\ Trimmed(result, out)
        /\ \A i \in 1..Len(result) : result[i].req <= request
    /\ pc = "reading" =>
        /\ \A i \in 1..Len(result) : result[i].req < request
        /\ \A i \in 1..Len(out) : out[i].req <= request

\* The second exchange has returned, its first read having brought the
\* newline the solver printed after the first exchange had returned.
C22_Witness ==
    /\ Returned
    /\ request = 2
    /\ Len(out) > 1
    /\ out[1] = Byte(1, "nl")
    /\ result = SubSeq(Response(2), 1, 4)

\* The number of observations in the bucket of (shell, key), 0 without one.
Count(map, shell, key) ==
    IF shell \in DOMAIN map /\ key \in DOMAIN map[shell]
    THEN Len(map[shell][key]) ELSE 0

\* The atoms of molid whose neighborhood of size shell has fingerprint key.
AtomsWithKey(molid, typing, shell, key) ==
    Cardinality({i \in 1..Len(Fragments[molid][typing][shell].items) :
                    Fragments[molid][typing][shell].items[i][1] = key})

charges_after(typing) == IF typing = "iacm" THEN charges_iacm' ELSE charges_elem'

\* Every pair (shell, key) that a store has before or after the step, or
\* that molid has at a shell of 1..max_shell.
Touched(molid, typing) ==
    UNION {{<<shell, key>> : key \in DOMAIN charges_of(typing)[shell]} :
                shell \in DOMAIN charges_of(typing)}
    \cup UNION {{<<shell, key>> : key \in DOMAIN charges_after(typing)[shell]} :
                shell \in DOMAIN charges_after(typing)}
    \cup UNION {{<<shell, Fragments[molid][typing][shell].items[i][1]>> :
                    i \in 1..Len(Fragments[molid][typing][shell].items)} :
                shell \in 1..max_shell}

\* The step changed each bucket by the named molecule's own observations:
\* one per atom at each shell of 1..max_shell when the call returned, and
\* never more than that when it raised.
OnlyTheNamedMolecule(op, molid) ==
    \A typing \in Typings : \A sk \in Touched(molid, typing) :
        \E d \in {(IF op = "a" THEN 1 ELSE -1) *
                    (Count(charges_after(typing), sk[1], sk[2])
                        - Count(charges_of(typing), sk[1], sk[2]))} :
            \E n \in {IF sk[1] \in 1..max_shell
                      THEN AtomsWithKey(molid, typing, sk[1], sk[2]) ELSE 0} :
                IF error' = "ok" THEN d = n ELSE d \in 0..n

\* C23: add(molid) and subtract(molid) process the one named molecule, also
\* when molid has an entry in the isomorphism index: at each shell of
\* 1..max_shell each store gains (add) or loses (subtract) exactly one
\* observation per atom of that molecule, and none of a molecule isomorphic
\* to it.
C23_OnlyTheNamedMolecule ==
    [][\A op \in {"a", "s"} : \A molid \in Molids :
            Mutate(op, molid) => OnlyTheNamedMolecule(op, molid)]_vars

\* Molecule 1 has been added to a repository built from molecules 1 and 2,
\* whose index lists molecule 2 under molecule 1.
C23_Witness ==
    /\ phase = "built"
    /\ Range(molids) = {1, 2}
    /\ 1 \in DOMAIN iso_iacm
    /\ 2 \in Range(iso_iacm[1])
    /\ max_shell = 2
    /\ ops = 1
    /\ error = "ok"
    /\ present = <<2, 1, 0, 0>>

\* The partial charges that occur in molecule files.
ChargeValues ==
    {Molecule[m].partial_charge[v] : m \in Molids, v \in 1..2} \ {NoCharge}

\* The bucket of (shell, key) in a map, empty when there is none.
BucketOf(map, shell, key) ==
    IF shell \in DOMAIN map /\ key \in DOMAIN map[shell]
    THEN map[shell][key] ELSE <<>>

\* The list without its element at position i.
Without(list, i) == SubSeq(list, 1, i - 1) \o SubSeq(list, i + 1, Len(list))

\* s(shell, key, q) on the store took nothing from the bucket, or took one
\* element equal to q.
RemovesOnlyThatValue(store, shell, key, q) ==
    \E after \in {BucketOf(s(shell, key, q, store).repo.map, shell, key)} :
        \/ after = store.map[shell][key]
        \/ \E i \in 1..Len(store.map[shell][key]) :
            /\ store.map[shell][key][i] = q
            /\ after = Without(store.map[shell][key], i)

\* C24: every element subtract removes from a bucket equals the charge
\* being subtracted; when the bucket exists and does not hold that charge,
\* no other value is removed from it.
C24_SubtractRemovesOnlyThatValue ==
    phase # "none" =>
        \A store \in {StoreIacm, StoreElem} : \A shell \in DOMAIN store.map :
            \A key \in DOMAIN store.map[shell] : \A q \in ChargeValues :
                RemovesOnlyThatValue(store, shell, key, q)

\* The fingerprints the molecule files have at a shell, for a typing.
KeysAt(typing, shell) ==
    UNION {{Fragments[m][typing][shell].items[i][1] :
                i \in 1..Len(Fragments[m][typing][shell].items)} : m \in Molids}

\* The store of a typing, with the kind of its dicts.
StoreOf(typing) == IF typing = "iacm" THEN StoreIacm ELSE StoreElem

\* s(shell, key, q) raised and left the store as it was.
FailsWithoutTrace(store, shell, key, q) ==
    \E r \in {s(shell, key, q, store)} :
        /\ r.error # "ok"
        /\ r.repo.map = store.map

\* C25: subtract on a shell or fingerprint that the store does not have ends
\* with an error and leaves the store as it was before that step: no empty
\* shell entry and no empty bucket is created, whether the dicts are plain
\* (a restored repository) or default-creating (a bulk-built one).
C25_AbsentBucketFailsWithoutTrace ==
    phase # "none" =>
        \A typing \in Typings : \A shell \in 1..MaxShellBound :
            \A key \in KeysAt(typing, shell) : \A q \in ChargeValues :
                BucketOf(StoreOf(typing).map, shell, key) = <<>>
                    /\ ~(shell \in DOMAIN StoreOf(typing).map
                            /\ key \in DOMAIN StoreOf(typing).map[shell])
                    => FailsWithoutTrace(StoreOf(typing), shell, key, q)

====
